---- MODULE Spec2Model ----
(***************************************************************************)
(* Model of build.go of go-oas-docs: the builders that turn the OAS object *)
(* graph into the generic map tree (transformToHybridOAS and the make*Map  *)
(* functions) and the BuildDocs driver that validates, marshals and writes *)
(* the result.                                                             *)
(*                                                                         *)
(* Go values are modelled as follows.                                      *)
(*   string            a TLA+ string; HTTPMethod is a sequence of one-     *)
(*                     character strings so that strings.ToLower can be    *)
(*                     computed rune by rune                               *)
(*   []string          a slice header [ptr |-> a]; its backing array is    *)
(*                     heap[a]; ptr 0 is the nil slice                     *)
(*   slice of structs  a sequence (the builders only range over them)      *)
(*   map built by make a function from keys to values; pathsMap and        *)
(*                     componentsMap, the two map types held by hybridOAS, *)
(*                     are records [nil, kv] so that a nil map and an      *)
(*                     empty map differ                                    *)
(***************************************************************************)
EXTENDS Integers, Sequences, FiniteSets, TLC

VARIABLES
    fn,     \* the function that is called
    arg,    \* its argument (for BuildDocs, the receiver o)
    ret,    \* the value a builder has returned
    pc,     \* "call" before the call, "ret" after the return; in between,
            \* the step BuildDocs is about to take
    heap,   \* the backing arrays of the []string values
    conf,   \* the conf argument of BuildDocs
    yml,    \* the local yml of BuildDocs
    err,    \* the error BuildDocs returns, as its chain of messages
    fs,     \* the output files: whether each exists, and its bytes
    open,   \* whether the handle outYAML is open
    trace   \* the steps BuildDocs has taken, each with its outcome

vars == <<fn, arg, ret, pc, heap, conf, yml, err, fs, open, trace>>

(* ------------------------------ bounds -------------------------------- *)

MaxRoutes == 2
MaxResponses == 3
MaxSchemas == 2
MaxSecuritySchemes == 2
MaxComponents == 2

BoundedSeq(S, n) == UNION {[1..k -> S] : k \in 0..n}

Range(s) == {s[i] : i \in 1..Len(s)}

(* ------------------------------ map keys ------------------------------ *)

keyTags == "tags"
keySummary == "summary"
keyOperationID == "operationId"
keySecurity == "security"
keyRequestBody == "requestBody"
keyResponses == "responses"
keyDescription == "description"
keyContent == "content"
keyRef == "$ref"
keySchemas == "schemas"
keySecuritySchemes == "securitySchemes"
keyName == "name"
keyType == "type"
keyProperties == "properties"
keyIn == "in"
keyXML == "xml"

defaultDocsOutPath == "./internal/dist/openapi.yaml"

(* --------------------------- Go map helpers --------------------------- *)

\* make(map[K]V): an empty, non-nil map.
EmptyMap == <<>>

\* m[k] = v
MapSet(m, k, v) == [x \in (DOMAIN m) \cup {k} |-> IF x = k THEN v ELSE m[x]]

\* make(pathsMap, n) / make(componentsMap, n): allocated, hence not nil.
MakeMap == [nil |-> FALSE, kv |-> EmptyMap]

\* the zero value of a map type
NilMap == [nil |-> TRUE, kv |-> EmptyMap]

(* --------------------------- strings.ToLower -------------------------- *)

UpperRunes == <<"A", "B", "C", "D", "E", "F", "G", "H", "I", "J", "K", "L", "M",
                "N", "O", "P", "Q", "R", "S", "T", "U", "V", "W", "X", "Y", "Z">>

LowerRunes == <<"a", "b", "c", "d", "e", "f", "g", "h", "i", "j", "k", "l", "m",
                "n", "o", "p", "q", "r", "s", "t", "u", "v", "w", "x", "y", "z">>

IsUpper(c) == \E i \in 1..Len(UpperRunes) : UpperRunes[i] = c

LowerRune(c) ==
    IF IsUpper(c)
    THEN LowerRunes[CHOOSE i \in 1..Len(UpperRunes) : UpperRunes[i] = c]
    ELSE c

\* strings.ToLower with every rune left as it is (the lowering forgotten)
ToLower_identity(s) == s

ToLower(s) == [i \in 1..Len(s) |-> LowerRune(s[i])]

(* ------------------------------ builders ------------------------------ *)

\* body of the loop of makeContentSchemaMap
makeContentSchemaMap_body(contentSchemaMap, ct) ==
    LET refMap == (keyRef :> ct.Schema)
        schemaMap == ("schema" :> refMap)
    IN  MapSet(contentSchemaMap, ct.Name, schemaMap)

makeContentSchemaMap(content) ==
    LET loop[i \in 0..Len(content)] ==
            IF i = 0 THEN EmptyMap
            ELSE makeContentSchemaMap_body(loop[i - 1], content[i])
    IN  loop[Len(content)]

\* body of the loop of makeSecurityMap: append(securityMaps, {AuthName: PermTypes})
makeSecurityMap_body(securityMaps, sec) ==
    LET securityMap == (sec.AuthName :> sec.PermTypes)
    IN  Append(securityMaps, securityMap)

makeSecurityMap(se) ==
    LET loop[i \in 0..Len(se)] ==
            IF i = 0 THEN <<>>
            ELSE makeSecurityMap_body(loop[i - 1], se[i])
    IN  loop[Len(se)]

makeRequestBodyMap(reqBody) ==
    MapSet(MapSet(EmptyMap, keyDescription, reqBody.Description),
           keyContent, makeContentSchemaMap(reqBody.Content))

\* the {description, content} map built for one response
codeBodyMapOf(resp) ==
    MapSet(MapSet(EmptyMap, keyDescription, resp.Description),
           keyContent, makeContentSchemaMap(resp.Content))

\* the loop body with the entry kept when the code is already present
makeResponsesMap_firstWins(responsesMap, resp) ==
    IF resp.Code \in DOMAIN responsesMap
    THEN responsesMap
    ELSE MapSet(responsesMap, resp.Code, codeBodyMapOf(resp))

\* body of the loop of makeResponsesMap
makeResponsesMap_body(responsesMap, resp) ==
    MapSet(responsesMap, resp.Code, codeBodyMapOf(resp))

makeResponsesMap(responses) ==
    LET loop[i \in 0..Len(responses)] ==
            IF i = 0 THEN EmptyMap
            ELSE makeResponsesMap_body(loop[i - 1], responses[i])
    IN  loop[Len(responses)]

\* the per-method map built for one Route
pathMapOf(path) ==
    LET m1 == MapSet(EmptyMap, keyTags, path.Tags)
        m2 == MapSet(m1, keySummary, path.Summary)
        m3 == MapSet(m2, keyOperationID, path.OperationID)
        m4 == MapSet(m3, keySecurity, makeSecurityMap(path.Security))
        m5 == MapSet(m4, keyRequestBody, makeRequestBodyMap(path.RequestBody))
    IN  MapSet(m5, keyResponses, makeResponsesMap(path.Responses))

\* the loop body with the methods map of the path made anew for every Route
makeAllPathsMap_reset(allPaths, path) ==
    MapSet(allPaths, path.Route,
           MapSet(EmptyMap, ToLower(path.HTTPMethod), pathMapOf(path)))

\* body of the loop of makeAllPathsMap
makeAllPathsMap_body(allPaths, path) ==
    LET withPath == IF path.Route \notin DOMAIN allPaths
                    THEN MapSet(allPaths, path.Route, EmptyMap)
                    ELSE allPaths
    IN  MapSet(withPath, path.Route,
               MapSet(withPath[path.Route], ToLower(path.HTTPMethod), pathMapOf(path)))

\* the loop started at the second Route
makeAllPathsMap_skipFirst(paths) ==
    LET loop[i \in 0..Len(paths)] ==
            IF i <= 1 THEN EmptyMap
            ELSE makeAllPathsMap_body(loop[i - 1], paths[i])
    IN  [MakeMap EXCEPT !.kv = loop[Len(paths)]]

makeAllPathsMap(paths) ==
    LET loop[i \in 0..Len(paths)] ==
            IF i = 0 THEN EmptyMap
            ELSE makeAllPathsMap_body(loop[i - 1], paths[i])
    IN  [MakeMap EXCEPT !.kv = loop[Len(paths)]]

\* the loop body with the "xml" key set for every schema
makeComponentSchemasMap_alwaysXML(schemesMap, s) ==
    LET s1 == MapSet(EmptyMap, keyType, s.Type)
        s2 == MapSet(s1, keyProperties, s.Properties)
        s3 == MapSet(s2, keyRef, s.Ref)
    IN  MapSet(schemesMap, s.Name, MapSet(s3, keyXML, s.XML))

\* body of the loop of makeComponentSchemasMap
makeComponentSchemasMap_body(schemesMap, s) ==
    LET s1 == MapSet(EmptyMap, keyType, s.Type)
        s2 == MapSet(s1, keyProperties, s.Properties)
        s3 == MapSet(s2, keyRef, s.Ref)
        scheme == IF s.XML.Name # "" THEN MapSet(s3, keyXML, s.XML) ELSE s3
    IN  MapSet(schemesMap, s.Name, scheme)

makeComponentSchemasMap(schemas) ==
    LET loop[i \in 0..Len(schemas)] ==
            IF i = 0 THEN EmptyMap
            ELSE makeComponentSchemasMap_body(loop[i - 1], schemas[i])
    IN  loop[Len(schemas)]

\* the loop body with the emptiness test made on the name instead of the location
makeComponentSecuritySchemesMap_testName(secSchemesMap, ss) ==
    LET s1 == MapSet(EmptyMap, keyName, ss.Name)
        s2 == MapSet(s1, keyType, ss.Type)
        scheme == IF ss.Name # "" THEN MapSet(s2, keyIn, ss.In) ELSE s2
    IN  MapSet(secSchemesMap, ss.Name, scheme)

\* body of the loop of makeComponentSecuritySchemesMap
makeComponentSecuritySchemesMap_body(secSchemesMap, ss) ==
    LET s1 == MapSet(EmptyMap, keyName, ss.Name)
        s2 == MapSet(s1, keyType, ss.Type)
        scheme == IF ss.In # "" THEN MapSet(s2, keyIn, ss.In) ELSE s2
    IN  MapSet(secSchemesMap, ss.Name, scheme)

makeComponentSecuritySchemesMap(secSchemes) ==
    LET loop[i \in 0..Len(secSchemes)] ==
            IF i = 0 THEN EmptyMap
            ELSE makeComponentSecuritySchemesMap_body(loop[i - 1], secSchemes[i])
    IN  loop[Len(secSchemes)]

\* the loop body with the new entries merged into those already present
makeComponentsMap_merge(cm, component) ==
    LET old(k) == IF k \in DOMAIN cm THEN cm[k] ELSE EmptyMap
        new1 == makeComponentSchemasMap(component.Schemas)
        new2 == makeComponentSecuritySchemesMap(component.SecuritySchemes)
        merge(a, b) == [x \in (DOMAIN a) \cup (DOMAIN b) |->
                            IF x \in DOMAIN b THEN b[x] ELSE a[x]]
    IN  MapSet(MapSet(cm, keySchemas, merge(old(keySchemas), new1)),
               keySecuritySchemes, merge(old(keySecuritySchemes), new2))

\* body of the loop of makeComponentsMap
makeComponentsMap_body(cm, component) ==
    MapSet(MapSet(cm, keySchemas, makeComponentSchemasMap(component.Schemas)),
           keySecuritySchemes,
           makeComponentSecuritySchemesMap(component.SecuritySchemes))

\* the map declared without make and allocated only inside the loop
makeComponentsMap_lazy(components) ==
    LET loop[i \in 0..Len(components)] ==
            IF i = 0 THEN EmptyMap
            ELSE makeComponentsMap_body(loop[i - 1], components[i])
    IN  IF Len(components) = 0 THEN NilMap
        ELSE [MakeMap EXCEPT !.kv = loop[Len(components)]]

makeComponentsMap(components) ==
    LET loop[i \in 0..Len(components)] ==
            IF i = 0 THEN EmptyMap
            ELSE makeComponentsMap_body(loop[i - 1], components[i])
    IN  [MakeMap EXCEPT !.kv = loop[Len(components)]]

\* (o *OAS) transformToHybridOAS
transformToHybridOAS(o) ==
    [OpenAPI      |-> o.OASVersion,
     Info         |-> o.Info,
     ExternalDocs |-> o.ExternalDocs,
     Servers      |-> o.Servers,
     Tags         |-> o.Tags,
     Paths        |-> makeAllPathsMap(o.Paths),
     Components   |-> makeComponentsMap(o.Components)]

\* the yaml keys of the fields of hybridOAS
hybridOASKeys ==
    [OpenAPI |-> "openapi", Info |-> "info", ExternalDocs |-> "externalDocs",
     Servers |-> "servers", Tags |-> "tags", Paths |-> "paths",
     Components |-> "components"]

(* ------------------------------- inputs ------------------------------- *)

\* backing arrays of the []string values of the object graph; 0 is nil
InitHeap ==
    (0 :> <<>>) @@ (1 :> <<"user", "admin">>) @@ (2 :> <<"read", "write">>)
                @@ (3 :> <<"id", "name">>)

NilSlice == [ptr |-> 0]

jsonUser == [Name |-> "application/json", Schema |-> "#/components/schemas/User"]

HTTPMethods ==
    {<<"G", "E", "T">>, <<"g", "e", "t">>, <<"G", "e", "t">>, <<"P", "U", "T">>}

Routes == {"/users", "/pets"}

ResponseSet ==
    [Code : {200, 404}, Description : {"ok", "fail"}, Content : {<<>>, <<jsonUser>>}]

\* what a Route carries besides its path and method: two unlike settings
RouteDetails ==
    { [Tags |-> [ptr |-> 1], Summary |-> "List users", OperationID |-> "listUsers",
       Security |-> <<[AuthName |-> "oauth", PermTypes |-> [ptr |-> 2]]>>,
       RequestBody |-> [Description |-> "", Content |-> <<>>],
       Responses |-> <<[Code |-> 200, Description |-> "ok", Content |-> <<jsonUser>>]>>],
      [Tags |-> NilSlice, Summary |-> "Create", OperationID |-> "create",
       Security |-> <<>>,
       RequestBody |-> [Description |-> "body", Content |-> <<jsonUser>>],
       Responses |-> <<[Code |-> 200, Description |-> "ok", Content |-> <<>>],
                       [Code |-> 404, Description |-> "fail", Content |-> <<>>]>>] }

RouteSet ==
    { [Route |-> r, HTTPMethod |-> m, Tags |-> d.Tags, Summary |-> d.Summary,
       OperationID |-> d.OperationID, Security |-> d.Security,
       RequestBody |-> d.RequestBody, Responses |-> d.Responses]
      : r \in Routes, m \in HTTPMethods, d \in RouteDetails }

SchemaSet ==
    [Name : {"User", "Pet"}, Type : {"object"}, Properties : {[ptr |-> 3]},
     Ref : {""}, XML : {[Name |-> ""], [Name |-> "user"]}]

SecuritySchemeSet ==
    [Name : {"apiKey", "oauth"}, Type : {"apiKey"}, In : {"", "header"}]

userSchema == [Name |-> "User", Type |-> "object", Properties |-> [ptr |-> 3],
               Ref |-> "", XML |-> [Name |-> "user"]]

petSchema == [Name |-> "Pet", Type |-> "object", Properties |-> [ptr |-> 3],
              Ref |-> "", XML |-> [Name |-> ""]]

apiKeyScheme == [Name |-> "apiKey", Type |-> "apiKey", In |-> "header"]

ComponentSet ==
    [Schemas : {<<>>, <<userSchema>>, <<petSchema, userSchema>>},
     SecuritySchemes : {<<>>, <<apiKeyScheme>>}]

ComponentsChoices ==
    { <<>>,
      <<[Schemas |-> <<userSchema>>, SecuritySchemes |-> <<apiKeyScheme>>]>>,
      <<[Schemas |-> <<userSchema>>, SecuritySchemes |-> <<apiKeyScheme>>],
        [Schemas |-> <<petSchema>>, SecuritySchemes |-> <<>>]>> }

OASSet ==
    [OASVersion : {"3.0.1"}, Info : {"info"}, ExternalDocs : {"externalDocs"},
     Servers : {"servers"}, Tags : {"tags"},
     Paths : BoundedSeq(RouteSet, MaxRoutes), Components : ComponentsChoices]

ConfSet == {<<>>, <<[customPath |-> "./docs/openapi.yaml"]>>}

OutPaths == {defaultDocsOutPath, "./docs/openapi.yaml"}

Functions ==
    {"makeResponsesMap", "makeAllPathsMap", "makeComponentSchemasMap",
     "makeComponentSecuritySchemesMap", "makeComponentsMap",
     "transformToHybridOAS", "BuildDocs"}

\* the arguments each function is called with
ArgsOf(f) ==
    CASE f = "makeResponsesMap" -> BoundedSeq(ResponseSet, MaxResponses)
      [] f = "makeAllPathsMap" -> BoundedSeq(RouteSet, MaxRoutes)
      [] f = "makeComponentSchemasMap" -> BoundedSeq(SchemaSet, MaxSchemas)
      [] f = "makeComponentSecuritySchemesMap" ->
             BoundedSeq(SecuritySchemeSet, MaxSecuritySchemes)
      [] f = "makeComponentsMap" -> BoundedSeq(ComponentSet, MaxComponents)
      [] f = "transformToHybridOAS" -> OASSet
      [] f = "BuildDocs" -> OASSet

NoError == <<>>

NoBytes == <<>>

Init ==
    /\ fn \in Functions
    /\ arg \in ArgsOf(fn)
    /\ ret = <<>>
    /\ pc = "call"
    /\ heap = InitHeap
    /\ conf \in (IF fn = "BuildDocs" THEN ConfSet ELSE {<<>>})
    /\ yml = NoBytes
    /\ err = NoError
    /\ fs = [p \in OutPaths |-> [exists |-> FALSE, data |-> NoBytes]]
    /\ open = FALSE
    /\ trace = <<>>

(* ---------------------- calls of the pure builders -------------------- *)

Return(f, v) ==
    /\ fn = f
    /\ pc = "call"
    /\ ret' = v
    /\ pc' = "ret"
    /\ UNCHANGED <<fn, arg, heap, conf, yml, err, fs, open, trace>>

Call_makeResponsesMap == Return("makeResponsesMap", makeResponsesMap(arg))

Call_makeAllPathsMap == Return("makeAllPathsMap", makeAllPathsMap(arg))

Call_makeComponentSchemasMap ==
    Return("makeComponentSchemasMap", makeComponentSchemasMap(arg))

Call_makeComponentSecuritySchemesMap ==
    Return("makeComponentSecuritySchemesMap", makeComponentSecuritySchemesMap(arg))

Call_makeComponentsMap == Return("makeComponentsMap", makeComponentsMap(arg))

\* sort.Strings as it orders the strings of the model
SortStrings(strs) ==
    SelectSeq(<<"admin", "changed", "id", "name", "read", "user", "write">>,
              LAMBDA x : x \in Range(strs))

\* the transform with the tag list of every Route sorted in place
Call_transformToHybridOAS_sortsTags ==
    /\ fn = "transformToHybridOAS"
    /\ pc = "call"
    /\ ret' = transformToHybridOAS(arg)
    /\ pc' = "ret"
    /\ heap' = [a \in DOMAIN heap |->
                   IF a \in {arg.Paths[i].Tags.ptr : i \in 1..Len(arg.Paths)}
                   THEN SortStrings(heap[a]) ELSE heap[a]]
    /\ UNCHANGED <<fn, arg, conf, yml, err, fs, open, trace>>

Call_transformToHybridOAS ==
    Return("transformToHybridOAS", transformToHybridOAS(arg))

(* ------------------------------ BuildDocs ----------------------------- *)

getPathFromFirstElement(cbs) ==
    IF Len(cbs) = 0 THEN defaultDocsOutPath ELSE cbs[1].customPath

\* fmt.Errorf("<msg>: %w", cause): the messages of the chain, outermost first
Wrap(msg, cause) == <<msg>> \o cause

\* the bytes yaml.Marshal gives for a document
yamlBytes(ho) == <<[yaml |-> ho]>>

\* what may be in the file when a write did not complete
PartialData(bytes) == {NoBytes, <<"partial">>}

Stage(name, ok) == [stage |-> name, ok |-> ok]

\* err := o.initCallStackForRoutes(); the validator's verdict is its own
BuildDocs_initCallStackForRoutes ==
    /\ fn = "BuildDocs"
    /\ pc = "call"
    /\ \E ok \in BOOLEAN :
          /\ trace' = Append(trace, Stage("initCallStackForRoutes", ok))
          /\ IF ok
             THEN /\ pc' = "marshal"
                  /\ err' = err
             ELSE /\ pc' = "ret"
                  /\ err' = Wrap("failed initiating call stack for registered routes",
                                 <<"initCallStackForRoutes error">>)
    /\ UNCHANGED <<fn, arg, ret, heap, conf, yml, fs, open>>

\* the marshaling step with its error dropped: the file is created all the same
BuildDocs_marshalToYAML_ignoreErr ==
    /\ fn = "BuildDocs"
    /\ pc = "marshal"
    /\ \E ok \in BOOLEAN :
          /\ trace' = Append(trace, Stage("marshalToYAML", ok))
          /\ yml' = IF ok THEN yamlBytes(transformToHybridOAS(arg)) ELSE NoBytes
          /\ pc' = "create"
          /\ err' = err
    /\ UNCHANGED <<fn, arg, ret, heap, conf, fs, open>>

\* yml, err := marshalToYAML(o)
BuildDocs_marshalToYAML ==
    /\ fn = "BuildDocs"
    /\ pc = "marshal"
    /\ \E ok \in BOOLEAN :
          /\ trace' = Append(trace, Stage("marshalToYAML", ok))
          /\ IF ok
             THEN /\ yml' = yamlBytes(transformToHybridOAS(arg))
                  /\ pc' = "create"
                  /\ err' = err
             ELSE /\ yml' = yml
                  /\ pc' = "ret"
                  /\ err' = Wrap("marshaling issue occurred",
                                 Wrap("failed marshaling to yaml", <<"yaml.Marshal error">>))
    /\ UNCHANGED <<fn, arg, ret, heap, conf, fs, open>>

\* createYAMLOutFile: outYAML, err := os.Create(outPath)
BuildDocs_createYAMLOutFile ==
    /\ fn = "BuildDocs"
    /\ pc = "create"
    /\ \E ok \in BOOLEAN :
          /\ trace' = Append(trace, Stage("os.Create", ok))
          /\ IF ok
             THEN /\ fs' = [fs EXCEPT ![getPathFromFirstElement(conf)] =
                                 [exists |-> TRUE, data |-> NoBytes]]
                  /\ open' = TRUE
                  /\ pc' = "write"
                  /\ err' = err
             ELSE /\ fs' = fs
                  /\ open' = open
                  /\ pc' = "ret"
                  /\ err' = Wrap("an issue occurred while saving to YAML output",
                                 Wrap("failed creating yaml output file", <<"os.Create error">>))
    /\ UNCHANGED <<fn, arg, ret, heap, conf, yml>>

\* writeAndFlush: _, err := writer.Write(yml); on failure the deferred Close runs
BuildDocs_writeAndFlush_Write ==
    /\ fn = "BuildDocs"
    /\ pc = "write"
    /\ \E ok \in BOOLEAN :
          /\ trace' = Append(trace, Stage("Write", ok))
          /\ IF ok
             THEN /\ fs' = fs
                  /\ open' = open
                  /\ pc' = "flush"
                  /\ err' = err
             ELSE /\ \E d \in PartialData(yml) :
                        fs' = [fs EXCEPT ![getPathFromFirstElement(conf)].data = d]
                  /\ open' = FALSE
                  /\ pc' = "ret"
                  /\ err' = Wrap("an issue occurred while saving to YAML output",
                                 Wrap("writing issue occurred",
                                      Wrap("failed writing to YAML output file",
                                           <<"Write error">>)))
    /\ UNCHANGED <<fn, arg, ret, heap, conf, yml>>

\* writeAndFlush: err = writer.Flush(); then the deferred Close and the return
BuildDocs_writeAndFlush_Flush ==
    /\ fn = "BuildDocs"
    /\ pc = "flush"
    /\ \E ok \in BOOLEAN :
          /\ trace' = Append(trace, Stage("Flush", ok))
          /\ IF ok
             THEN /\ fs' = [fs EXCEPT ![getPathFromFirstElement(conf)].data = yml]
                  /\ err' = NoError
             ELSE /\ \E d \in PartialData(yml) :
                        fs' = [fs EXCEPT ![getPathFromFirstElement(conf)].data = d]
                  /\ err' = Wrap("an issue occurred while saving to YAML output",
                                 Wrap("writing issue occurred",
                                      Wrap("failed flushing output writer",
                                           <<"Flush error">>)))
    /\ open' = FALSE
    /\ pc' = "ret"
    /\ UNCHANGED <<fn, arg, ret, heap, conf, yml>>

(* ------------------- the caller's use of the result ------------------- *)

\* the per-method maps of a hybridOAS
Operations(ho) ==
    LET kv == ho.Paths.kv
    IN  UNION {{kv[r][m] : m \in DOMAIN kv[r]} : r \in DOMAIN kv}

\* the backing arrays of the []string values held by a hybridOAS
OutSlicePtrs(ho) ==
    LET tagPtrs == {op[keyTags].ptr : op \in Operations(ho)}
        permsOf(securityMap) == {securityMap[a].ptr : a \in DOMAIN securityMap}
        permPtrs == UNION {UNION {permsOf(op[keySecurity][i])
                                    : i \in 1..Len(op[keySecurity])}
                             : op \in Operations(ho)}
    IN  (tagPtrs \cup permPtrs) \ {0}

\* the backing arrays of the []string values of the Routes of an OAS
InSlicePtrs(o) ==
    LET tagPtrs == {o.Paths[i].Tags.ptr : i \in 1..Len(o.Paths)}
        permPtrs == UNION {{o.Paths[i].Security[j].PermTypes.ptr
                              : j \in 1..Len(o.Paths[i].Security)}
                             : i \in 1..Len(o.Paths)}
    IN  (tagPtrs \cup permPtrs) \ {0}

\* the Routes of an OAS with their []string values read from the heap h
RoutesView(o, h) ==
    [i \in 1..Len(o.Paths) |->
        [Route |-> o.Paths[i].Route,
         HTTPMethod |-> o.Paths[i].HTTPMethod,
         Tags |-> h[o.Paths[i].Tags.ptr],
         Security |-> [j \in 1..Len(o.Paths[i].Security) |->
                          [AuthName |-> o.Paths[i].Security[j].AuthName,
                           PermTypes |-> h[o.Paths[i].Security[j].PermTypes.ptr]]]]]

\* a later write through the returned tree: ho.Paths[r][m]["tags"][i] = "changed"
\* (or the same on a permission list)
MutateOutput ==
    /\ fn = "transformToHybridOAS"
    /\ pc = "ret"
    /\ \E a \in OutSlicePtrs(ret) :
          \E i \in 1..Len(heap[a]) :
              /\ heap[a][i] # "changed"
              /\ heap' = [heap EXCEPT ![a][i] = "changed"]
    /\ UNCHANGED <<fn, arg, ret, pc, conf, yml, err, fs, open, trace>>

(* --------------------------- specification ---------------------------- *)

Next ==
    \/ Call_makeResponsesMap
    \/ Call_makeAllPathsMap
    \/ Call_makeComponentSchemasMap
    \/ Call_makeComponentSecuritySchemesMap
    \/ Call_makeComponentsMap
    \/ Call_transformToHybridOAS
    \/ BuildDocs_initCallStackForRoutes
    \/ BuildDocs_marshalToYAML
    \/ BuildDocs_createYAMLOutFile
    \/ BuildDocs_writeAndFlush_Write
    \/ BuildDocs_writeAndFlush_Flush
    \/ MutateOutput

Spec == Init /\ [][Next]_vars

(* ------------------------------ properties ---------------------------- *)

Returned(f) == fn = f /\ pc = "ret"

\* the index of the last Route of paths with path r and lowercased method m
LastRoute(paths, r, m) ==
    CHOOSE i \in 1..Len(paths) :
        /\ paths[i].Route = r
        /\ [k \in 1..Len(paths[i].HTTPMethod) |-> LowerRune(paths[i].HTTPMethod[k])] = m
        /\ \A j \in (i + 1)..Len(paths) :
              ~(/\ paths[j].Route = r
                /\ [k \in 1..Len(paths[j].HTTPMethod) |->
                        LowerRune(paths[j].HTTPMethod[k])] = m)

Lowered(method) == [k \in 1..Len(method) |-> LowerRune(method[k])]

\* C1: the number of path keys returned by makeAllPathsMap equals the number
\* of distinct Route path strings of its argument, however many Routes share
\* a path.
C1_DistinctPathKeys ==
    Returned("makeAllPathsMap") =>
        Cardinality(DOMAIN ret.kv) = Cardinality({arg[i].Route : i \in 1..Len(arg)})

\* two Routes with one path and two methods give one path key
C1_Witness ==
    /\ Returned("makeAllPathsMap")
    /\ Len(arg) = 2
    /\ arg[1].Route = arg[2].Route
    /\ Lowered(arg[1].HTTPMethod) # Lowered(arg[2].HTTPMethod)
    /\ Cardinality(DOMAIN ret.kv) = 1

C3_MethodKeysLowercase ==
    Returned("makeAllPathsMap") =>
        /\ \A r \in DOMAIN ret.kv :
              \A m \in DOMAIN ret.kv[r] :
                  /\ \A k \in 1..Len(m) : ~IsUpper(m[k])
                  /\ \E i \in 1..Len(arg) :
                        arg[i].Route = r /\ m = Lowered(arg[i].HTTPMethod)
        /\ \A i \in 1..Len(arg) :
              Lowered(arg[i].HTTPMethod) \in DOMAIN ret.kv[arg[i].Route]

\* a Route with method "GET" is found under the key "get"
C3_Witness ==
    /\ Returned("makeAllPathsMap")
    /\ \E i \in 1..Len(arg) :
          /\ arg[i].HTTPMethod = <<"G", "E", "T">>
          /\ DOMAIN ret.kv[arg[i].Route] = {<<"g", "e", "t">>}

\* the names of a list of schemas or of security schemes
NamesOf(list) == {list[i].Name : i \in 1..Len(list)}

\* C4: with two or more Components entries, the "schemas" and
\* "securitySchemes" maps of makeComponentsMap are those built from the last
\* entry alone; no key of an earlier entry survives.
C4_LastComponentsWins ==
    (Returned("makeComponentsMap") /\ Len(arg) >= 2) =>
        LET last == arg[Len(arg)]
        IN  /\ DOMAIN ret.kv = {keySchemas, keySecuritySchemes}
            /\ ret.kv[keySchemas] = makeComponentSchemasMap(last.Schemas)
            /\ ret.kv[keySecuritySchemes] =
                   makeComponentSecuritySchemesMap(last.SecuritySchemes)
            /\ DOMAIN ret.kv[keySchemas] = NamesOf(last.Schemas)
            /\ DOMAIN ret.kv[keySecuritySchemes] = NamesOf(last.SecuritySchemes)

\* an entry with schemas followed by an entry without any: no schema is left
C4_Witness ==
    /\ Returned("makeComponentsMap")
    /\ Len(arg) = 2
    /\ arg[1].Schemas # <<>>
    /\ arg[1].SecuritySchemes # <<>>
    /\ arg[2].Schemas = <<>>
    /\ arg[2].SecuritySchemes = <<>>
    /\ DOMAIN ret.kv[keySchemas] = {}
    /\ DOMAIN ret.kv[keySecuritySchemes] = {}

\* the index of the last element of list with the name n
LastNamed(list, n) ==
    CHOOSE i \in 1..Len(list) :
        list[i].Name = n /\ \A j \in (i + 1)..Len(list) : list[j].Name # n

\* C5: the schema map made by makeComponentSchemasMap for a ComponentSchema
\* has the key "xml" exactly when the schema's XML name is not empty, and then
\* its value is the schema's XML value.
C5_XMLKeyIffNamed ==
    Returned("makeComponentSchemasMap") =>
        /\ DOMAIN ret = NamesOf(arg)
        /\ \A n \in DOMAIN ret :
              LET s == arg[LastNamed(arg, n)]
              IN  /\ (keyXML \in DOMAIN ret[n]) <=> (s.XML.Name # "")
                  /\ (keyXML \in DOMAIN ret[n]) => ret[n][keyXML] = s.XML
                  /\ {keyType, keyProperties, keyRef} \subseteq DOMAIN ret[n]

\* one schema with an XML name and one without, the first with the key
C5_Witness ==
    /\ Returned("makeComponentSchemasMap")
    /\ Len(arg) = 2
    /\ arg[1].Name # arg[2].Name
    /\ arg[1].XML.Name = "user"
    /\ arg[2].XML.Name = ""
    /\ ret[arg[1].Name][keyXML] = [Name |-> "user"]
    /\ keyXML \notin DOMAIN ret[arg[2].Name]

\* C6: the scheme map made by makeComponentSecuritySchemesMap for a
\* SecurityScheme has the key "in" exactly when the scheme's location is not
\* empty, and then its value is that location; "name" and "type" are always
\* there.
C6_InKeyIffLocated ==
    Returned("makeComponentSecuritySchemesMap") =>
        /\ DOMAIN ret = NamesOf(arg)
        /\ \A n \in DOMAIN ret :
              LET ss == arg[LastNamed(arg, n)]
              IN  /\ (keyIn \in DOMAIN ret[n]) <=> (ss.In # "")
                  /\ (keyIn \in DOMAIN ret[n]) => ret[n][keyIn] = ss.In
                  /\ {keyName, keyType} \subseteq DOMAIN ret[n]
                  /\ ret[n][keyName] = ss.Name
                  /\ ret[n][keyType] = ss.Type

\* one scheme with a location and one without
C6_Witness ==
    /\ Returned("makeComponentSecuritySchemesMap")
    /\ Len(arg) = 2
    /\ arg[1].Name # arg[2].Name
    /\ arg[1].In = "header"
    /\ arg[2].In = ""
    /\ ret[arg[1].Name][keyIn] = "header"
    /\ DOMAIN ret[arg[2].Name] = {keyName, keyType}

\* C7: for an empty Route list and an empty Components list,
\* transformToHybridOAS gives a document with the seven top-level keys, whose
\* paths and components are empty maps that are not nil; no input makes a
\* top-level key go missing.
C7_EmptyInputKeepsAllKeys ==
    Returned("transformToHybridOAS") =>
        /\ {hybridOASKeys[f] : f \in DOMAIN ret} =
               {"openapi", "info", "externalDocs", "servers", "tags", "paths",
                "components"}
        /\ (arg.Paths = <<>> /\ arg.Components = <<>>) =>
               /\ ~ret.Paths.nil
               /\ DOMAIN ret.Paths.kv = {}
               /\ ~ret.Components.nil
               /\ DOMAIN ret.Components.kv = {}

\* the transform has returned for an OAS without Routes and Components
C7_Witness ==
    /\ Returned("transformToHybridOAS")
    /\ arg.Paths = <<>>
    /\ arg.Components = <<>>
    /\ ret.Components = MakeMap

\* the index of the last response of list with the status code c
LastCoded(list, c) ==
    CHOOSE i \in 1..Len(list) :
        list[i].Code = c /\ \A j \in (i + 1)..Len(list) : list[j].Code # c

\* C10: makeResponsesMap returns a map keyed by status code with one entry per
\* distinct code of the list; the entry is {description, content} of the last
\* response of the list with that code.
C10_LastResponseWins ==
    Returned("makeResponsesMap") =>
        /\ DOMAIN ret = {arg[i].Code : i \in 1..Len(arg)}
        /\ \A c \in DOMAIN ret :
              LET resp == arg[LastCoded(arg, c)]
              IN  /\ DOMAIN ret[c] = {keyDescription, keyContent}
                  /\ ret[c][keyDescription] = resp.Description
                  /\ DOMAIN ret[c][keyContent] =
                         {resp.Content[k].Name : k \in 1..Len(resp.Content)}
                  /\ \A n \in DOMAIN ret[c][keyContent] :
                        ret[c][keyContent][n]["schema"][keyRef] =
                            resp.Content[LastNamed(resp.Content, n)].Schema

\* two responses with one code and unlike bodies: the later one is kept
C10_Witness ==
    /\ Returned("makeResponsesMap")
    /\ Len(arg) = 2
    /\ arg[1].Code = arg[2].Code
    /\ arg[1].Description = "ok"
    /\ arg[1].Content # <<>>
    /\ arg[2].Description = "fail"
    /\ arg[2].Content = <<>>
    /\ ret[arg[1].Code][keyDescription] = "fail"
    /\ DOMAIN ret[arg[1].Code][keyContent] = {}

StageOrder == <<"initCallStackForRoutes", "marshalToYAML", "os.Create", "Write", "Flush">>

\* the message BuildDocs puts in front of the error of a step
StageMessage(stage) ==
    CASE stage = "initCallStackForRoutes" ->
             "failed initiating call stack for registered routes"
      [] stage = "marshalToYAML" -> "marshaling issue occurred"
      [] OTHER -> "an issue occurred while saving to YAML output"

\* C8: BuildDocs runs validation, then build-and-serialize, then file creation
\* and write, each at most once and in that order; after a failed step no
\* further step runs and the error returned starts with the message of the
\* failed stage; the output file is touched only after validation and
\* marshaling succeeded; nil is returned only when every step succeeded.
C8_StagesInOrder ==
    fn = "BuildDocs" =>
        /\ Len(trace) <= Len(StageOrder)
        /\ \A k \in 1..Len(trace) : trace[k].stage = StageOrder[k]
        /\ \A k \in 1..(Len(trace) - 1) : trace[k].ok
        /\ \A p \in DOMAIN fs :
              (fs[p].exists \/ fs[p].data # NoBytes) =>
                  /\ p = getPathFromFirstElement(conf)
                  /\ Len(trace) >= 3
                  /\ trace[1].ok /\ trace[2].ok /\ trace[3].ok
        /\ pc # "ret" => err = NoError
        /\ pc = "ret" =>
              /\ Len(trace) >= 1
              /\ (err = NoError) <=>
                     (Len(trace) = Len(StageOrder) /\ \A k \in 1..Len(trace) : trace[k].ok)
              /\ err # NoError =>
                     /\ ~trace[Len(trace)].ok
                     /\ err[1] = StageMessage(trace[Len(trace)].stage)
                     /\ ~open

\* marshaling failed: BuildDocs returned its error and made no file
C8_Witness ==
    /\ fn = "BuildDocs"
    /\ pc = "ret"
    /\ Len(trace) = 2
    /\ trace[1].ok
    /\ ~trace[2].ok
    /\ err[1] = "marshaling issue occurred"
    /\ \A p \in DOMAIN fs : ~fs[p].exists

====
